---- MODULE Spec2Model ----
(***************************************************************************)
(* State-machine model of Telethon's MTProto transport framing             *)
(* (telethon/network/connection.py) and authorization-key handshake        *)
(* (telethon/network/authenticator.py).                                    *)
(*                                                                         *)
(* Bytes are integers 0..255, byte strings are sequences of bytes.         *)
(* 32-bit quantities that do not fit TLC's integers (CRC-32 values) are    *)
(* kept as their four little-endian bytes, which is also how they are      *)
(* written to and read from the wire.                                      *)
(***************************************************************************)
EXTENDS Integers, Sequences, FiniteSets, TLC

(***************************************************************************)
(* Bounds of the model.                                                    *)
(***************************************************************************)
\* send() calls issued on a connection between two socket opens
MaxSends == 2
\* sockets opened by one Connection object
MaxOpens == 2

None == "None"

Modes == {"TCP_FULL", "TCP_INTERMEDIATE", "TCP_ABRIDGED", "TCP_OBFUSCATED"}

(***************************************************************************)
(* Byte helpers.                                                           *)
(***************************************************************************)
RECURSIVE XorBits(_, _, _)
XorBits(a, b, n) ==
    IF n = 0 THEN 0
    ELSE ((a + b) % 2) + 2 * XorBits(a \div 2, b \div 2, n - 1)

\* xor of two 4-bit values, tabulated once: entry 16 * a + b
XorNibble == [p \in 0..255 |-> XorBits(p \div 16, p % 16, 4)] @@ <<>>

Xor8(a, b) ==
    XorNibble[16 * (a % 16) + (b % 16)]
      + 16 * XorNibble[16 * (a \div 16) + (b \div 16)]

\* xor of two 32-bit words given as four bytes each
Xor32(x, y) ==
    <<Xor8(x[1], y[1]), Xor8(x[2], y[2]), Xor8(x[3], y[3]), Xor8(x[4], y[4])>>

\* int.to_bytes(n, k, 'little'); BinaryWriter.write_int(n) is to_bytes(n, 4)
RECURSIVE to_bytes(_, _)
to_bytes(n, k) ==
    IF k = 0 THEN <<>> ELSE <<n % 256>> \o to_bytes(n \div 256, k - 1)

\* Python integers are unbounded; a length of 2^30 or more is kept as 2^30,
\* which exceeds every stream of the model just as the real value would.
IntCap == 2 ^ 30

\* int.from_bytes(bs, 'little')
RECURSIVE from_bytes(_)
from_bytes(bs) ==
    IF bs = <<>> THEN 0
    ELSE LET hi == from_bytes(Tail(bs))
         IN  IF hi >= IntCap \div 256 THEN IntCap ELSE bs[1] + 256 * hi

\* s[off : off + n] with a 0-based offset
Slice(s, off, n) == SubSeq(s, off + 1, off + n)

(***************************************************************************)
(* zlib.crc32: IEEE CRC-32 (reflected, polynomial 0xEDB88320, initial      *)
(* value and final xor 0xFFFFFFFF), as its four little-endian bytes.       *)
(***************************************************************************)
CrcPoly == <<32, 131, 184, 237>>

ShiftRight1(w) ==
    << (w[1] \div 2) + 128 * (w[2] % 2),
       (w[2] \div 2) + 128 * (w[3] % 2),
       (w[3] \div 2) + 128 * (w[4] % 2),
        w[4] \div 2 >>

CrcStep(w) ==
    IF w[1] % 2 = 1 THEN Xor32(ShiftRight1(w), CrcPoly) ELSE ShiftRight1(w)

RECURSIVE CrcIter(_, _)
CrcIter(w, n) == IF n = 0 THEN w ELSE CrcIter(CrcStep(w), n - 1)

\* zlib's table of the CRC of each single byte, built once
CrcTable == [i \in 0..255 |-> CrcIter(<<i, 0, 0, 0>>, 8)] @@ <<>>

\* One table-driven update of the running CRC w with byte b.
CrcByte(w, b) ==
    Xor32(CrcTable[Xor8(w[1], b)], <<w[2], w[3], w[4], 0>>)

\* The running CRC over data[lo..hi]: zlib's byte-by-byte update, in order.
\* The range is folded in halves and each half's result is bound as a value
\* before the next half uses it.
RECURSIVE CrcUpdate(_, _, _, _)
CrcUpdate(w, data, lo, hi) ==
    IF lo > hi THEN w
    ELSE IF lo = hi
         THEN CrcByte(w, data[lo])
         ELSE LET mid == (lo + hi) \div 2
              IN  CHOOSE r \in { CrcUpdate(l, data, mid + 1, hi) :
                                   l \in {CrcUpdate(w, data, lo, mid)} } : TRUE

crc32(data) ==
    Xor32(CrcUpdate(<<255, 255, 255, 255>>, data, 1, Len(data)),
             <<255, 255, 255, 255>>)

(***************************************************************************)
(* AESModeCTR (crypto library): a stream cipher object holding a key, an   *)
(* iv and the number of keystream bytes consumed so far; encrypt xors the  *)
(* data with the next keystream bytes.  The keystream is a stand-in        *)
(* function of key, iv and position (the block cipher is outside the       *)
(* model).                                                                 *)
(***************************************************************************)
AESModeCTR(key, iv) == [key |-> key, iv |-> iv, pos |-> 0]

\* the value of _aes_encrypt and _aes_decrypt while they are None
NoCipher == [key |-> <<>>, iv |-> <<>>, pos |-> 0]

KeyStreamByte(c, i) ==
    (3 * c.key[(i % Len(c.key)) + 1] + 5 * c.iv[(i % Len(c.iv)) + 1]
       + 7 * i + c.key[((i \div 3) % Len(c.key)) + 1]) % 256

\* the bytes returned by cipher.encrypt(data)
CtrOutput(c, data) ==
    [i \in 1..Len(data) |-> Xor8(data[i], KeyStreamByte(c, c.pos + i - 1))]

\* the cipher object after cipher.encrypt(data)
CtrAdvance(c, n) == [c EXCEPT !.pos = @ + n]

(***************************************************************************)
(* Connection._setup_obfuscation                                           *)
(***************************************************************************)
\* b'PVrG', b'GET ', b'POST', b'\xee' * 4
keywords ==
    { <<80, 86, 114, 71>>, <<71, 69, 84, 32>>, <<80, 79, 83, 84>>,
      <<238, 238, 238, 238>> }

\* The loop's exit condition on a candidate, as Python evaluates it:
\*   random[0] != b'\xef'      compares an int with a bytes object: always true
\*   random[:4] not in keywords
\*   random[4:4] != b'\0\0\0\0' compares an empty slice: always true
AcceptsRandom(random) ==
    /\ TRUE
    /\ Slice(random, 0, 4) \notin keywords
    /\ Slice(random, 4, 0) # <<0, 0, 0, 0>>

\* random with random[56] = random[57] = random[58] = random[59] = 0xef
TaggedRandom(random) ==
    [i \in 1..64 |-> IF i \in 57..60 THEN 239 ELSE random[i]]

\* random[55:7:-1]
random_reversed(random) == [j \in 1..48 |-> random[57 - j]]

encrypt_key(random) == Slice(random, 8, 32)
encrypt_iv(random) == Slice(random, 40, 16)
decrypt_key(random) == Slice(random_reversed(random), 0, 32)
decrypt_iv(random) == Slice(random_reversed(random), 32, 16)

\* The state _setup_obfuscation leaves and the 64 bytes it writes, given
\* the candidate the loop ended with.
SetupObfuscation(random) ==
    LET tagged == TaggedRandom(random)
        enc == AESModeCTR(encrypt_key(tagged), encrypt_iv(tagged))
        dec == AESModeCTR(decrypt_key(tagged), decrypt_iv(tagged))
        self_enc == CtrOutput(enc, tagged)
    IN  [ aes_encrypt |-> CtrAdvance(enc, 64),
          aes_decrypt |-> dec,
          written |-> Slice(tagged, 0, 56) \o Slice(self_enc, 56, 8) ]

(***************************************************************************)
(* Frames written by the send implementations.                             *)
(***************************************************************************)
\* _send_tcp_full: length, sequence number, message, crc32 of those
FrameFull(counter, message) ==
    LET head == to_bytes(Len(message) + 12, 4) \o to_bytes(counter, 4)
                  \o message
    IN  head \o crc32(head)

\* _send_intermediate
FrameIntermediate(message) == to_bytes(Len(message), 4) \o message

\* a _send_abridged whose short form would also take a length of 127 words
FrameAbridged_Off(message) ==
    LET length == Len(message) \div 4
    IN  (IF length <= 127 THEN <<length>>
         ELSE <<127>> \o to_bytes(length, 3)) \o message

\* _send_abridged
FrameAbridged(message) ==
    LET length == Len(message) \div 4
    IN  (IF length < 127 THEN <<length>>
         ELSE <<127>> \o to_bytes(length, 3)) \o message

Frame(m, counter, message) ==
    CASE m = "TCP_FULL" -> FrameFull(counter, message)
      [] m = "TCP_INTERMEDIATE" -> FrameIntermediate(message)
      [] OTHER -> FrameAbridged(message)

\* the prefix connect() writes for the plain modes
ModePrefix(m) ==
    CASE m = "TCP_ABRIDGED" -> <<239>>
      [] m = "TCP_INTERMEDIATE" -> <<238, 238, 238, 238>>
      [] OTHER -> <<>>

(***************************************************************************)
(* The recv implementations, on the bytes `s` that read() would deliver    *)
(* (after decryption in obfuscated mode).  The result tells what recv      *)
(* returns or raises, how many bytes were taken from the socket (used)     *)
(* and how many were delivered by completed read() calls (done).           *)
(* read(n) with fewer than n bytes left fails with ConnectionClosed after  *)
(* taking what was there; read(n) with n < 0 fails with MalformedFrame.    *)
(***************************************************************************)
Body(b, n) == [kind |-> "body", body |-> b, err |-> None, used |-> n, done |-> n]

Raise(e, u, d) == [kind |-> "error", body |-> <<>>, err |-> e, used |-> u, done |-> d]

ShortRead(s, d) == Raise("ConnectionClosed", Len(s), d)

\* a _recv_tcp_full that would return the body without comparing checksums
RecvTcpFull_NoCheck(s) ==
    IF Len(s) < 12 THEN ShortRead(s, 0)
    ELSE LET n == from_bytes(Slice(s, 0, 4)) - 12
         IN  IF n < 0 THEN Raise("MalformedFrame", 8, 8)
             ELSE IF Len(s) < 12 + n THEN ShortRead(s, 8)
             ELSE Body(Slice(s, 8, n), 12 + n)

RecvTcpFull(s) ==
    IF Len(s) < 4 THEN ShortRead(s, 0)
    ELSE IF Len(s) < 8 THEN ShortRead(s, 4)
    ELSE
      LET packet_length_bytes == Slice(s, 0, 4)
          packet_length == from_bytes(packet_length_bytes)
          seq_bytes == Slice(s, 4, 4)
          n == packet_length - 12
      IN  IF n < 0 THEN Raise("MalformedFrame", 8, 8)
          ELSE IF Len(s) < 8 + n THEN ShortRead(s, 8)
          ELSE IF Len(s) < 8 + n + 4 THEN ShortRead(s, 8 + n)
          ELSE
            LET body == Slice(s, 8, n)
                checksum == Slice(s, 8 + n, 4)
                valid_checksum == crc32(packet_length_bytes \o seq_bytes \o body)
            IN  IF checksum # valid_checksum
                THEN Raise("InvalidChecksumError", 12 + n, 12 + n)
                ELSE Body(body, 12 + n)

RecvIntermediate(s) ==
    IF Len(s) < 4 THEN ShortRead(s, 0)
    ELSE LET n == from_bytes(Slice(s, 0, 4))
         IN  IF Len(s) < 4 + n THEN ShortRead(s, 4)
             ELSE Body(Slice(s, 4, n), 4 + n)

RecvAbridged_Exact(s) ==
    IF Len(s) < 1 THEN ShortRead(s, 0)
    ELSE
      LET first == from_bytes(Slice(s, 0, 1))
      IN  IF first = 127
          THEN IF Len(s) < 4 THEN ShortRead(s, 1)
               ELSE LET length == from_bytes(Slice(s, 1, 3) \o <<0>>)
                        n == length * 4
                    IN  IF Len(s) < 4 + n THEN ShortRead(s, 4)
                        ELSE Body(Slice(s, 4, n), 4 + n)
          ELSE LET n == first * 4
               IN  IF Len(s) < 1 + n THEN ShortRead(s, 1)
                   ELSE Body(Slice(s, 1, n), 1 + n)

\* _recv_abridged
RecvAbridged(s) ==
    IF Len(s) < 1 THEN ShortRead(s, 0)
    ELSE
      LET first == from_bytes(Slice(s, 0, 1))
      IN  IF first >= 127
          THEN IF Len(s) < 4 THEN ShortRead(s, 1)
               ELSE LET length == from_bytes(Slice(s, 1, 3) \o <<0>>)
                        n == length * 4
                    IN  IF Len(s) < 4 + n THEN ShortRead(s, 4)
                        ELSE Body(Slice(s, 4, n), 4 + n)
          ELSE LET n == first * 4
               IN  IF Len(s) < 1 + n THEN ShortRead(s, 1)
                   ELSE Body(Slice(s, 1, n), 1 + n)

RecvOn(m, s) ==
    CASE m = "TCP_FULL" -> RecvTcpFull(s)
      [] m = "TCP_INTERMEDIATE" -> RecvIntermediate(s)
      [] OTHER -> RecvAbridged(s)

(***************************************************************************)
(* Inputs of the model.                                                    *)
(***************************************************************************)
\* candidates for os.urandom(64): a 4-byte start followed by 60 bytes
\* generated from a seed
RandomStarts ==
    << <<80, 86, 114, 71>>,        \* "PVrG"
       <<71, 69, 84, 32>>,         \* "GET "
       <<80, 79, 83, 84>>,         \* "POST"
       <<238, 238, 238, 238>>,     \* EE EE EE EE
       <<72, 69, 65, 68>>,         \* "HEAD"
       <<18, 52, 86, 120>>,
       <<239, 52, 86, 120>>,       \* EF first
       <<0, 0, 0, 0>> >>

MkRandom(start, seed) ==
    start \o [i \in 1..60 |-> (41 * seed + i * (2 * seed + 9)) % 256]

RandomCandidates == { MkRandom(RandomStarts[k], k) : k \in DOMAIN RandomStarts }

\* payloads handed to send(): empty, one word, and 127 words (the first
\* length abridged mode writes with the long prefix)
Payloads ==
    { <<>>,
      <<170, 187, 204, 221>>,
      [i \in 1..508 |-> (3 * i) % 256] }

(***************************************************************************)
(* State.                                                                  *)
(***************************************************************************)
\* no byte has been altered in transit
NoTamper == [at |-> -1, field |-> "none"]

(***************************************************************************)
(* The handshake: values.                                                  *)
(*                                                                         *)
(* Nonces are numbers drawn from small sets, constructor numbers are kept  *)
(* as the hexadecimal text of the source, and a message is the record of   *)
(* the fields BinaryWriter puts on it or BinaryReader takes from it.  The  *)
(* ciphers are symbolic: a ciphertext names the key it was made with and   *)
(* decrypts to its plaintext under that key only.                          *)
(***************************************************************************)
\* the largest retries argument given explicitly
MaxRetries == 2

\* def do_authentication(connection, retries=5)
DefaultRetries == 5

\* the retries argument: left out, None, or an integer
RetriesArgs ==
    {[kind |-> "omitted", n |-> 0], [kind |-> "None", n |-> 0]}
        \cup {[kind |-> "int", n |-> k] : k \in (-1)..MaxRetries}

\* the value the parameter is bound to, 0 standing for None where only its
\* truth value is read
BoundRetries(arg) == IF arg.kind = "omitted" THEN DefaultRetries ELSE arg.n

\* if not retries or retries < 0: retries = 1
ClampRetries(r) == IF r = 0 \/ r < 0 THEN 1 ELSE r

\* exceptions
Err(type, msg) == [type |-> type, msg |-> msg]

NoError == Err("None", "")

\* an except clause that would catch everything
Caught_Any(e) == TRUE

\* an except clause that would catch SecurityError alone
Caught_SecurityOnly(e) == e.type = "SecurityError"

\* except (SecurityError, TypeNotFoundError, NotImplementedError)
Caught(e) == e.type \in {"SecurityError", "TypeNotFoundError", "NotImplementedError"}

\* what a read from the connection can raise
TransportErrors ==
    {Err("InvalidChecksumError", ""), Err("ConnectionClosed", ""), Err("Timeout", "")}

\* os.urandom(16), os.urandom(32), os.urandom(256) and what a server may
\* put in place of them
Nonces == {1, 2}

ServerNonces == {7, 8}

NewNonces == {3, 4}

Bs == {2, 5}

\* int(time.time())
Clock == {1000}

\* what servers send as pq, as DH parameters and as their time
PQs == {21}

GoodDH == [g |-> 3, dh_prime |-> 1009, ga |-> 8]

DHParams == {GoodDH, [g |-> 3, dh_prime |-> 1009, ga |-> 1]}

ServerTimes == {1003}

\* the fingerprints of the public keys the client holds, and the lists a
\* server may advertise
KnownKeys == {"fpA", "fpB"}

GoodLists == { <<"fpX", "fpB", "fpA">>, <<"fpA">> }

FingerprintLists == GoodLists \cup { <<>>, <<"fpX">> }

\* Factorization.factorize(pq): the smaller factor first
factorize(pq) ==
    LET p == CHOOSE d \in 2..pq : pq % d = 0 /\ \A e \in 2..(d - 1) : pq % e # 0
    IN  <<p, pq \div p>>

\* rsa.encrypt(fingerprint, data): None when no key has that fingerprint
NoCipherText == [fingerprint |-> "None"]

rsa_encrypt(fingerprint, data) ==
    IF fingerprint \in KnownKeys
    THEN [fingerprint |-> fingerprint, data |-> data]
    ELSE NoCipherText

\* a loop that would run to the end of the list and keep the last key found
LastKnown(fingerprints, i) ==
    LET known == { j \in i..Len(fingerprints) :
                      rsa_encrypt(fingerprints[j], <<>>) # NoCipherText }
    IN  IF known = {} THEN 0 ELSE CHOOSE j \in known : \A h \in known : h <= j

\* for fingerprint in fingerprints: ... if cipher_text is not None: break
\* the index of the fingerprint the loop stops at, 0 when it runs out
RECURSIVE FirstKnown(_, _)
FirstKnown(fingerprints, i) ==
    IF i > Len(fingerprints) THEN 0
    ELSE IF rsa_encrypt(fingerprints[i], <<>>) # NoCipherText THEN i
    ELSE FirstKnown(fingerprints, i + 1)

\* utils.generate_key_data_from_nonce(server_nonce, new_nonce)
generate_key_data_from_nonce(server_nonce, new_nonce) ==
    [server_nonce |-> server_nonce, new_nonce |-> new_nonce]

NoKey == generate_key_data_from_nonce(0, 0)

\* AES.encrypt_ige(plain, key, iv)
encrypt_ige(plain, key_iv) == [key_iv |-> key_iv, plain |-> plain]

\* what a ciphertext decrypts to under another key: bytes that parse as no
\* known constructor
Garbage ==
    [code |-> "garbage", nonce |-> 0, server_nonce |-> 0, g |-> 0,
     dh_prime |-> 0, ga |-> 0, server_time |-> 0]

\* AES.decrypt_ige(encrypted_answer, key, iv)
decrypt_ige(encrypted, key_iv) ==
    IF encrypted.key_iv = key_iv THEN encrypted.plain ELSE Garbage

\* pow(x, e, m) for m > 0
RECURSIVE pow(_, _, _)
pow(x, e, m) == IF e = 0 THEN 1 % m ELSE (x * pow(x, e - 1, m)) % m

\* rsa.get_byte_array(n): the big-endian bytes of n, none for 0
RECURSIVE get_byte_array(_)
get_byte_array(n) ==
    IF n = 0 THEN <<>> ELSE get_byte_array(n \div 256) \o <<n % 256>>

\* the length of an auth key, in bytes
KeyLength == 256

Zeros == [i \in 1..KeyLength |-> 0]

\* data behind as many zero bytes as bring it to n bytes
ZeroPad(data, n) ==
    IF Len(data) >= n THEN data ELSE SubSeq(Zeros, 1, n - Len(data)) \o data

\* a key that would be stored as the bytes come
AuthKey_Unpadded(data) == [key |-> data]

\* AuthKey(data): the key is stored on KeyLength bytes
AuthKey(data) == [key |-> ZeroPad(data, KeyLength)]


\* auth_key.calc_new_nonce_hash(new_nonce, number)
calc_new_nonce_hash(auth_key, new_nonce, number) ==
    [new_nonce |-> new_nonce, number |-> number, key |-> auth_key.key]

\* the locals of _do_authentication, and for each random or received one the
\* attempt in which it was assigned (0: not yet)
NotBorn ==
    [nonce |-> 0, server_nonce |-> 0, pq |-> 0, new_nonce |-> 0,
     key_iv |-> 0, b |-> 0, gab |-> 0]

UnsetLocals ==
    [nonce |-> 0, server_nonce |-> 0, pq |-> 0, fingerprints |-> <<>>,
     new_nonce |-> 0, p |-> 0, q |-> 0, target_fingerprint |-> "None",
     key_iv |-> NoKey, g |-> 0, dh_prime |-> 0, ga |-> 0, time_offset |-> 0,
     b |-> 0, gb |-> 0, gab |-> 0, born |-> NotBorn]

\* locals that would outlive the attempt that assigned them
AttemptLocals_Kept(old, nonce, k) ==
    [old EXCEPT !.nonce = nonce, !.born.nonce = k]

\* a call of _do_authentication starts with no local but the nonce it draws
AttemptLocals(old, nonce, k) ==
    [UnsetLocals EXCEPT !.nonce = nonce, !.born.nonce = k]

NoResult == [auth_key |-> [key |-> <<>>], time_offset |-> 0, set |-> FALSE]

VARIABLES
    mode,          \* Connection._mode, fixed at construction
    sock,          \* the TcpClient socket: "unopened", "open" or "closed"
    send_counter,  \* Connection._send_counter
    aes_encrypt,   \* Connection._aes_encrypt (NoCipher or a cipher object)
    aes_decrypt,   \* Connection._aes_decrypt
    sock_out,      \* bytes written to the current socket, in order
    writes,        \* the conn.write calls on the current socket: who wrote, how much
    inb,           \* bytes the peer has sent that the client has not read yet
    peer,          \* what sits at the other end: "echo" or "mirror"
    peer_pos,      \* how many bytes of sock_out the peer has taken
    sends,         \* the send() calls since the socket was opened (or since construction)
    recvs,         \* the recv() calls on the current socket and their outcomes
    rpos,          \* bytes the client has taken from the current socket
    tamper,        \* the byte altered in transit on the current socket, or the
                   \* frame the peer put on it of its own, if any
    opens,         \* sockets opened so far
    pc,            \* where do_authentication stands, "idle" before the call
    retries_arg,   \* the retries argument do_authentication was called with
    retries,       \* do_authentication's retries
    last_error,    \* do_authentication's last_error
    raised,        \* the exception that left do_authentication
    result,        \* what do_authentication returned
    loc,           \* the locals of the running call of _do_authentication
    attempts,      \* calls of _do_authentication started
    sent,          \* the messages sent in the current attempt
    rcvd,          \* the messages received in the current attempt
    att_err,       \* the exception that ended the current attempt
    first_end,     \* how the first attempt ended
    honest         \* the server has followed the exchange in this attempt

conn_vars ==
    <<mode, sock, send_counter, aes_encrypt, aes_decrypt, sock_out, writes,
      inb, peer, peer_pos, sends, recvs, rpos, tamper, opens>>

auth_vars ==
    <<pc, retries_arg, retries, last_error, raised, result, loc, attempts, sent,
      rcvd, att_err, first_end, honest>>

vars == <<conn_vars, auth_vars>>

\* the caller is inside do_authentication
InHandshake == pc \in {"loop", "send1", "recv1", "send2", "recv2", "send3", "recv3"}

IsObfuscated == mode = "TCP_OBFUSCATED"

\* the length of what connect() writes before any frame
PrefixLength == IF IsObfuscated THEN 64 ELSE Len(ModePrefix(mode))

\* Connection.__init__: counter 0, no ciphers, socket not opened
Init ==
    /\ mode \in Modes
    /\ sock = "unopened"
    /\ send_counter = 0
    /\ aes_encrypt = NoCipher
    /\ aes_decrypt = NoCipher
    /\ sock_out = <<>>
    /\ writes = <<>>
    /\ inb = <<>>
    /\ peer \in (IF mode = "TCP_OBFUSCATED" THEN {"echo", "mirror"} ELSE {"echo"})
    /\ peer_pos = 0
    /\ sends = <<>>
    /\ recvs = <<>>
    /\ rpos = 0
    /\ tamper = NoTamper
    /\ opens = 0
    /\ pc = "idle"
    /\ retries_arg = [kind |-> "omitted", n |-> 0]
    /\ retries = 0
    /\ last_error = NoError
    /\ raised = NoError
    /\ result = NoResult
    /\ loc = UnsetLocals
    /\ attempts = 0
    /\ sent = <<>>
    /\ rcvd = <<>>
    /\ att_err = NoError
    /\ first_end = ""
    /\ honest = TRUE

(***************************************************************************)
(* Connection.connect                                                      *)
(***************************************************************************)
\* what a fresh socket looks like to the model
FreshSocket ==
    /\ inb' = <<>>
    /\ peer_pos' = 0
    /\ sends' = <<>>
    /\ recvs' = <<>>
    /\ rpos' = 0
    /\ tamper' = NoTamper
    /\ opens' = opens + 1

\* the write of the mode prefix: it reaches the socket, or the socket is
\* lost while writing and the error leaves connect()
WritePrefix(bytes, ok) ==
    IF ok
    THEN /\ sock' = "open"
         /\ sock_out' = bytes
         /\ writes' = <<[tag |-> "prefix", n |-> Len(bytes)]>>
    ELSE /\ sock' = "closed"
         /\ sock_out' = <<>>
         /\ writes' = <<>>

\* a connect() that would leave the counter as it was
CounterAfterConnect_Kept(c) == c

\* self._send_counter = 0
CounterAfterConnect(c) == 0

\* conn.connect() opens the socket: the counter is reset and the prefix of
\* the mode is written
Connect ==
    /\ ~InHandshake
    /\ sock # "open"
    /\ opens < MaxOpens
    /\ UNCHANGED auth_vars
    /\ send_counter' = CounterAfterConnect(send_counter)
    /\ FreshSocket
    /\ UNCHANGED <<mode, peer>>
    /\ CASE mode = "TCP_FULL" ->
              /\ sock' = "open"
              /\ sock_out' = <<>>
              /\ writes' = <<>>
              /\ UNCHANGED <<aes_encrypt, aes_decrypt>>
         [] mode \in {"TCP_ABRIDGED", "TCP_INTERMEDIATE"} ->
              /\ \E ok \in BOOLEAN : WritePrefix(ModePrefix(mode), ok)
              /\ UNCHANGED <<aes_encrypt, aes_decrypt>>
         [] OTHER ->
              \E random \in RandomCandidates, ok \in BOOLEAN :
                 /\ AcceptsRandom(random)
                 /\ LET o == SetupObfuscation(random)
                    IN  /\ aes_encrypt' = o.aes_encrypt
                        /\ aes_decrypt' = o.aes_decrypt
                        /\ WritePrefix(o.written, ok)

\* a connect() that would go on to write the prefix on the socket it found
\* connected
ConnectAlready_Rewrites ==
    /\ ~InHandshake
    /\ sock = "open"
    /\ UNCHANGED auth_vars
    /\ sock_out' = sock_out \o (IF IsObfuscated THEN Slice(sock_out, 0, 64)
                                ELSE ModePrefix(mode))
    /\ writes' = Append(writes, [tag |-> "prefix", n |-> PrefixLength])
    /\ UNCHANGED <<mode, sock, send_counter, aes_encrypt, aes_decrypt, inb, peer,
                   peer_pos, sends, recvs, rpos, tamper, opens>>

\* conn.connect() raises OSError with errno EISCONN: connect() returns at
\* once and nothing is set up again
ConnectAlready ==
    /\ ~InHandshake
    /\ sock = "open"
    /\ UNCHANGED vars

(***************************************************************************)
(* Connection.close                                                        *)
(***************************************************************************)
\* the socket is gone: what was written to it and what was pending on it
\* is out of the program's reach
SocketGone ==
    /\ sock' = "closed"
    /\ sock_out' = <<>>
    /\ writes' = <<>>
    /\ inb' = <<>>
    /\ peer_pos' = 0
    /\ recvs' = <<>>
    /\ rpos' = 0
    /\ tamper' = NoTamper

Close ==
    /\ ~InHandshake
    /\ sock = "open"
    /\ UNCHANGED auth_vars
    /\ SocketGone
    /\ UNCHANGED <<mode, send_counter, aes_encrypt, aes_decrypt, peer, sends,
                   opens>>

(***************************************************************************)
(* Connection.send: _send_tcp_full, _send_intermediate, _send_abridged     *)
(* over _write_plain or _write_obfuscated.                                 *)
(*                                                                         *)
(* The frame is built with the current counter, the counter is advanced    *)
(* (full mode), the obfuscated write path passes the frame through the     *)
(* encrypt stream, and then conn.write runs.  conn.write on a socket that  *)
(* is not open fails; on an open socket it may fail because the socket is  *)
(* lost, which leaves it closed.                                           *)
(***************************************************************************)
CounterAfterSend(m, c) == IF m = "TCP_FULL" THEN c + 1 ELSE c

\* a write path that would start the keystream anew for every frame
WriteData_PerFrame(frame) ==
    IF IsObfuscated THEN CtrOutput([aes_encrypt EXCEPT !.pos = 64], frame)
    ELSE frame

\* the bytes write() hands to conn.write
WriteData(frame) ==
    IF IsObfuscated THEN CtrOutput(aes_encrypt, frame) ELSE frame

ConnSend(message, ok) ==
    LET frame == Frame(mode, send_counter, message)
    IN  IF IsObfuscated /\ aes_encrypt = NoCipher
        THEN \* self._aes_encrypt is None: AttributeError before any write
             /\ sends' = Append(sends, [message |-> message, result |-> "AttributeError"])
             /\ UNCHANGED <<mode, sock, send_counter, aes_encrypt, aes_decrypt,
                            sock_out, writes, inb, peer, peer_pos, recvs, rpos,
                            tamper, opens>>
        ELSE /\ send_counter' = CounterAfterSend(mode, send_counter)
             /\ aes_encrypt' = IF IsObfuscated
                               THEN CtrAdvance(aes_encrypt, Len(frame))
                               ELSE aes_encrypt
             /\ IF sock = "open" /\ ok
                THEN /\ sock_out' = sock_out \o WriteData(frame)
                     /\ writes' = Append(writes, [tag |-> "frame", n |-> Len(frame)])
                     /\ sock' = sock
                     /\ sends' = Append(sends, [message |-> message, result |-> "ok"])
                     /\ UNCHANGED <<inb, peer_pos, recvs, rpos, tamper>>
                ELSE /\ sends' = Append(sends, [message |-> message,
                                                result |-> "ConnectionClosed"])
                     /\ IF sock = "open" THEN SocketGone
                        ELSE UNCHANGED <<sock, sock_out, writes, inb, peer_pos,
                                         recvs, rpos, tamper>>
             /\ UNCHANGED <<mode, aes_decrypt, peer, opens>>

WriteOutcomes == IF sock = "open" THEN BOOLEAN ELSE {FALSE}

SendOf(S) ==
    /\ ~InHandshake
    /\ Len(sends) < MaxSends
    /\ UNCHANGED auth_vars
    /\ \E message \in S, ok \in WriteOutcomes : ConnSend(message, ok)

Send == SendOf(Payloads)

(***************************************************************************)
(* Connection.recv: _recv_tcp_full, _recv_intermediate, _recv_abridged     *)
(* over _read_plain or _read_obfuscated.                                   *)
(***************************************************************************)
\* what the read() calls of one recv() would deliver from the pending bytes
ReadView ==
    IF IsObfuscated THEN CtrOutput(aes_decrypt, inb) ELSE inb

ConnRecv ==
    LET r == RecvOn(mode, ReadView)
    IN  /\ inb' = Slice(inb, r.used, Len(inb) - r.used)
        /\ aes_decrypt' = IF IsObfuscated THEN CtrAdvance(aes_decrypt, r.done)
                          ELSE aes_decrypt
        /\ recvs' = Append(recvs, [kind |-> r.kind, body |-> r.body, err |-> r.err,
                                   from |-> rpos, used |-> r.used])
        /\ rpos' = rpos + r.used
        /\ UNCHANGED <<mode, sock, send_counter, aes_encrypt, sock_out, writes,
                       peer, peer_pos, sends, tamper, opens>>

Recv ==
    /\ ~InHandshake
    /\ sock = "open"
    /\ UNCHANGED auth_vars
    /\ inb # <<>>
    /\ ConnRecv

(***************************************************************************)
(* The other end of the socket.  It takes the mode prefix and sends every  *)
(* later byte back: unchanged ("echo"), or, as an obfuscation endpoint     *)
(* ("mirror"), decrypted with the key and iv of the client's encrypt       *)
(* stream and encrypted again with those of the client's decrypt stream,   *)
(* both taken from the initializer it received.                            *)
(***************************************************************************)
Max(a, b) == IF a >= b THEN a ELSE b

PeerReply(start, bytes) ==
    IF peer = "mirror"
    THEN LET init == Slice(sock_out, 0, 64)
             from_client == AESModeCTR(encrypt_key(init), encrypt_iv(init))
             to_client == AESModeCTR(decrypt_key(init), decrypt_iv(init))
         IN  [i \in 1..Len(bytes) |->
                 Xor8(Xor8(bytes[i], KeyStreamByte(from_client, start + i - 1)),
                      KeyStreamByte(to_client, start - 64 + i - 1))]
    ELSE bytes

PeerEcho ==
    /\ sock = "open"
    /\ UNCHANGED auth_vars
    /\ Len(sock_out) > Max(peer_pos, PrefixLength)
    /\ LET start == Max(peer_pos, PrefixLength)
       IN  inb' = inb \o PeerReply(start, Slice(sock_out, start, Len(sock_out) - start))
    /\ peer_pos' = Len(sock_out)
    /\ UNCHANGED <<mode, sock, send_counter, aes_encrypt, aes_decrypt, sock_out,
                   writes, peer, sends, recvs, rpos, tamper, opens>>

NextConn == Connect \/ ConnectAlready \/ Close \/ Send \/ Recv \/ PeerEcho

SpecConn == Init /\ [][NextConn]_vars

(***************************************************************************)
(* Bytes altered in transit (full mode): one byte of the frames pending    *)
(* for the client is replaced by another value, once per socket.           *)
(***************************************************************************)
\* payloads of the runs with an altered byte; <<38, 202, 141, 50>> is the
\* CRC-32 of the eight bytes 0C 00 00 00 00 00 00 00
ShortPayloads == { <<>>, <<170, 187, 204, 221>>, <<38, 202, 141, 50>> }

SendShort == SendOf(ShortPayloads)

\* offset in the socket's stream of the k-th conn.write
RECURSIVE WriteStart(_)
WriteStart(k) == IF k <= 1 THEN 0 ELSE WriteStart(k - 1) + writes[k - 1].n

\* the field of the full-mode frame that stream offset `at` falls into
FieldAt(at) ==
    LET k == CHOOSE j \in 1..Len(writes) :
                 WriteStart(j) <= at /\ at < WriteStart(j) + writes[j].n
        rel == at - WriteStart(k)
    IN  IF rel < 4 THEN "length"
        ELSE IF rel < 8 THEN "seq"
        ELSE IF rel >= writes[k].n - 4 THEN "checksum"
        ELSE "payload"

TamperValues(old) == {Xor8(old, 1), Xor8(old, 128), 12, 255} \ {old}

Tamper ==
    /\ mode = "TCP_FULL"
    /\ UNCHANGED auth_vars
    /\ sock = "open"
    /\ tamper = NoTamper
    /\ inb # <<>>
    /\ \E i \in 1..Len(inb) : \E v \in TamperValues(inb[i]) :
          /\ inb' = [inb EXCEPT ![i] = v]
          /\ tamper' = [at |-> rpos + i - 1, field |-> FieldAt(rpos + i - 1)]
    /\ UNCHANGED <<mode, sock, send_counter, aes_encrypt, aes_decrypt, sock_out,
                   writes, peer, peer_pos, sends, recvs, rpos, opens>>

InitTamper == Init /\ mode = "TCP_FULL"

NextTamper == Connect \/ SendShort \/ PeerEcho \/ Recv \/ Tamper

SpecTamper == InitTamper /\ [][NextTamper]_vars

(***************************************************************************)
(* The abridged framing on its own: abridged and obfuscated mode, payloads *)
(* around the 127-word threshold and one that is no whole number of words, *)
(* and a peer that may write one frame of its own.                         *)
(***************************************************************************)
\* 5 bytes, 126 words, 127 words
WordPayloads ==
    { <<1, 2, 3, 4, 5>>,
      [i \in 1..504 |-> (5 * i) % 256],
      [i \in 1..508 |-> (3 * i) % 256] }

SendWords == SendOf(WordPayloads)

\* frames a peer may write: one word behind lengths of four bytes that start
\* with 7F and 80
PeerFrames ==
    { <<127, 1, 0, 0>> \o <<9, 8, 7, 6>>,
      <<128, 1, 0, 0>> \o <<9, 8, 7, 6>> }

\* the peer writes a frame of its own, once on a socket
PeerWrites ==
    /\ mode = "TCP_ABRIDGED"
    /\ sock = "open"
    /\ tamper = NoTamper
    /\ \E f \in PeerFrames : inb' = inb \o f
    /\ tamper' = [at |-> rpos + Len(inb), field |-> "peer frame"]
    /\ UNCHANGED <<mode, sock, send_counter, aes_encrypt, aes_decrypt, sock_out,
                   writes, peer, peer_pos, sends, recvs, rpos, opens>>
    /\ UNCHANGED auth_vars

InitAbridged == Init /\ mode \in {"TCP_ABRIDGED", "TCP_OBFUSCATED"} /\ peer = "echo"

NextAbridged == Connect \/ SendWords \/ PeerEcho \/ PeerWrites \/ Recv

SpecAbridged == InitAbridged /\ [][NextAbridged]_vars

(***************************************************************************)
(* The handshake: do_authentication and _do_authentication.                *)
(*                                                                         *)
(* A step runs from one blocking call of the plain sender to the next.     *)
(* The server is any peer: its answers are drawn from the answers that go  *)
(* with the client's state and from those that differ from them in the     *)
(* constructor, a nonce, the key, the hash.                                *)
(***************************************************************************)
\* an exception for an unknown constructor that the driver would not catch
TypeNotFoundError_Uncaught(code) == Err("ValueError", code)

TypeNotFoundError(code) == Err("TypeNotFoundError", code)

SecurityError(msg) == Err("SecurityError", msg)

NotImplementedError(msg) == Err("NotImplementedError", msg)

\* a comparison that would let every value through
Differs_Never(a, b) == FALSE

\* nonce_from_server != nonce, server_nonce_from_server != server_nonce
Differs(a, b) == a # b

\* a hash comparison that would let every value through
HashDiffers_Never(a, b) == FALSE

\* new_nonce_hash1 != new_nonce_hash_calculated
HashDiffers(a, b) == a # b

\* what the lines after a receive leave: the exception raised, if any, and
\* the locals
Raised(e, l) == [err |-> e, loc |-> l]

Passed(l) == [err |-> NoError, loc |-> l]

\* the messages the client writes
req_pq(l) == [code |-> "0x60469778", nonce |-> l.nonce]

pq_inner_data(l) ==
    [code |-> "0x83c95aec", pq |-> l.pq, p |-> l.p, q |-> l.q,
     nonce |-> l.nonce, server_nonce |-> l.server_nonce,
     new_nonce |-> l.new_nonce]

req_DH_params(l) ==
    [code |-> "0xd712e4be", nonce |-> l.nonce, server_nonce |-> l.server_nonce,
     p |-> l.p, q |-> l.q, fingerprint |-> l.target_fingerprint,
     cipher_text |-> rsa_encrypt(l.target_fingerprint, pq_inner_data(l))]

client_dh_inner_data(l) ==
    [code |-> "0x6643b654", nonce |-> l.nonce, server_nonce |-> l.server_nonce,
     retry_id |-> 0, gb |-> get_byte_array(l.gb)]

set_client_DH_params(l) ==
    [code |-> "0xf5045f1f", nonce |-> l.nonce, server_nonce |-> l.server_nonce,
     encrypted |-> encrypt_ige(client_dh_inner_data(l), l.key_iv)]

\* step 1 response and step 2 sending up to the send: lines 44-109
AfterResPQ(l, r, new_nonce, k) ==
    IF r.code # "0x05162463" THEN Raised(TypeNotFoundError(r.code), l)
    ELSE IF Differs(r.nonce, l.nonce)
    THEN Raised(SecurityError("Invalid nonce from server"), l)
    ELSE IF r.vector_id # "0x1cb5c415" THEN Raised(TypeNotFoundError(r.code), l)
    ELSE LET pq == factorize(r.pq)
             i == FirstKnown(r.fingerprints, 1)
         IN  IF i = 0
             THEN Raised(SecurityError("Could not find a valid key for fingerprints"), l)
             ELSE Passed([l EXCEPT !.server_nonce = r.server_nonce,
                                   !.pq = r.pq,
                                   !.fingerprints = r.fingerprints,
                                   !.new_nonce = new_nonce,
                                   !.p = pq[1],
                                   !.q = pq[2],
                                   !.target_fingerprint = r.fingerprints[i],
                                   !.born.server_nonce = k,
                                   !.born.pq = k,
                                   !.born.new_nonce = k])

\* the decrypted answer: lines 138-161
AfterInnerData(l, d, now, b, k) ==
    IF d.code # "0xb5890dba" THEN Raised(TypeNotFoundError(d.code), l)
    ELSE IF Differs(d.nonce, l.nonce)
    THEN Raised(SecurityError("Invalid nonce in encrypted answer"), l)
    ELSE IF Differs(d.server_nonce, l.server_nonce)
    THEN Raised(SecurityError("Invalid server nonce in encrypted answer"), l)
    ELSE IF d.dh_prime = 0 THEN Raised(Err("ValueError", "pow() 3rd argument cannot be 0"), l)
    ELSE Passed([l EXCEPT !.g = d.g,
                          !.dh_prime = d.dh_prime,
                          !.ga = d.ga,
                          !.time_offset = d.server_time - now,
                          !.b = b,
                          !.gb = pow(d.g, b, d.dh_prime),
                          !.gab = pow(d.ga, b, d.dh_prime),
                          !.born.b = k,
                          !.born.gab = k])

\* step 2 response and step 3 sending up to the send: lines 113-194
AfterServerDHParams(l, r, now, b, k) ==
    IF r.code = "0x79cb045d" THEN Raised(SecurityError("Server DH params fail: TODO"), l)
    ELSE IF r.code # "0xd0e8075c" THEN Raised(TypeNotFoundError(r.code), l)
    ELSE IF Differs(r.nonce, l.nonce)
    THEN Raised(SecurityError("Invalid nonce from server"), l)
    ELSE IF Differs(r.server_nonce, l.server_nonce)
    THEN Raised(SecurityError("Invalid server nonce from server"), l)
    ELSE LET key_iv == generate_key_data_from_nonce(l.server_nonce, l.new_nonce)
         IN  AfterInnerData([l EXCEPT !.key_iv = key_iv, !.born.key_iv = k],
                            decrypt_ige(r.encrypted_answer, key_iv), now, b, k)

\* step 3 response: lines 198-226; the auth key comes with Passed
AfterDHGen(l, r) ==
    IF r.code = "0x3bcbf734"
    THEN IF Differs(r.nonce, l.nonce)
         THEN Raised(SecurityError("Invalid nonce from server"), l)
         ELSE IF Differs(r.server_nonce, l.server_nonce)
         THEN Raised(SecurityError("Invalid server nonce from server"), l)
         ELSE LET auth_key == AuthKey(get_byte_array(l.gab))
              IN  IF HashDiffers(r.new_nonce_hash1,
                                 calc_new_nonce_hash(auth_key, l.new_nonce, 1))
                  THEN Raised(SecurityError("Invalid new nonce hash"), l)
                  ELSE Passed(l)
    ELSE IF r.code = "0x46dc1fb9" THEN Raised(NotImplementedError("dh_gen_retry"), l)
    ELSE IF r.code = "0xa69dae02" THEN Raised(NotImplementedError("dh_gen_fail"), l)
    ELSE Raised(NotImplementedError("DH Gen unknown"), l)

\* ---- the server ----
OtherCode == "0x00000000"

Responses1 ==
    { [code |-> c, nonce |-> n, server_nonce |-> sn, pq |-> pq, vector_id |-> v,
       fingerprints |-> fl] :
         c \in {"0x05162463", OtherCode}, n \in Nonces, sn \in ServerNonces,
         pq \in PQs, v \in {"0x1cb5c415", OtherCode}, fl \in FingerprintLists }

Honest1(r) ==
    /\ r.code = "0x05162463"
    /\ r.nonce = loc.nonce
    /\ r.vector_id = "0x1cb5c415"
    /\ r.fingerprints \in GoodLists

server_DH_inner_data(c, n, sn, d, t) ==
    [code |-> c, nonce |-> n, server_nonce |-> sn, g |-> d.g,
     dh_prime |-> d.dh_prime, ga |-> d.ga, server_time |-> t]

server_DH_params(c, n, sn, e) ==
    [code |-> c, nonce |-> n, server_nonce |-> sn, encrypted_answer |-> e]

\* the answer a server that has followed the exchange gives in step 2
GoodAnswer(d) ==
    encrypt_ige(server_DH_inner_data("0xb5890dba", loc.nonce, loc.server_nonce,
                                     d, CHOOSE t \in ServerTimes : TRUE),
                generate_key_data_from_nonce(loc.server_nonce, loc.new_nonce))

Responses2 ==
    { server_DH_params("0xd0e8075c", loc.nonce, loc.server_nonce, GoodAnswer(d)) :
         d \in DHParams }
    \cup
    { server_DH_params(c, n, sn, GoodAnswer(GoodDH)) :
         c \in {"0xd0e8075c", "0x79cb045d", OtherCode},
         n \in Nonces, sn \in ServerNonces }
    \cup
    { server_DH_params("0xd0e8075c", loc.nonce, loc.server_nonce,
         encrypt_ige(server_DH_inner_data(c, n, sn, GoodDH,
                                          CHOOSE t \in ServerTimes : TRUE),
                     generate_key_data_from_nonce(loc.server_nonce, nn))) :
         c \in {"0xb5890dba", OtherCode}, n \in Nonces, sn \in ServerNonces,
         nn \in NewNonces }

Honest2(r) == r = server_DH_params("0xd0e8075c", loc.nonce, loc.server_nonce,
                                   GoodAnswer(GoodDH))

dh_gen(c, n, sn, h) ==
    [code |-> c, nonce |-> n, server_nonce |-> sn, new_nonce_hash1 |-> h]

\* the hash a server that has followed the exchange gives in step 3
GoodHash ==
    calc_new_nonce_hash(AuthKey(get_byte_array(loc.gab)), loc.new_nonce, 1)

Hashes ==
    {GoodHash}
    \cup { calc_new_nonce_hash(AuthKey(get_byte_array(loc.gab)), nn, k) :
              nn \in NewNonces, k \in {1, 2} }
    \cup { calc_new_nonce_hash(AuthKey(get_byte_array(loc.gab + 1)), loc.new_nonce, 1) }

Responses3 ==
    { dh_gen("0x3bcbf734", n, sn, h) : n \in Nonces, sn \in ServerNonces, h \in Hashes }
    \cup
    { dh_gen(c, loc.nonce, loc.server_nonce, GoodHash) :
         c \in {"0x46dc1fb9", "0xa69dae02", OtherCode} }

Honest3(r) == r = dh_gen("0x3bcbf734", loc.nonce, loc.server_nonce, GoodHash)

\* ---- do_authentication ----
\* how the first attempt ended, as far as the properties tell it apart
EndTag(e) ==
    IF e.type = "NotImplementedError" /\ e.msg \in {"dh_gen_fail", "dh_gen_retry"}
    THEN e.msg
    ELSE "other"

\* last_error = e that would keep the first error
LastErrorAfter_First(old, e) == IF old = NoError THEN e ELSE old

\* last_error = e
LastErrorAfter(old, e) == e

\* lines 15-19: the parameter is clamped and the loop is entered
DoAuthentication ==
    /\ pc = "idle"
    /\ \E arg \in RetriesArgs :
          /\ retries_arg' = arg
          /\ retries' = ClampRetries(BoundRetries(arg))
    /\ last_error' = NoError
    /\ pc' = "loop"
    /\ UNCHANGED <<conn_vars, raised, result, loc, attempts, sent, rcvd, att_err,
                   first_end, honest>>

\* an attempt that would start its frames at seq 0 again
NextAttempt_NewSeq ==
    /\ pc = "loop"
    /\ retries # 0
    /\ \E nonce \in Nonces : loc' = AttemptLocals(loc, nonce, attempts + 1)
    /\ attempts' = attempts + 1
    /\ sent' = <<>>
    /\ rcvd' = <<>>
    /\ att_err' = NoError
    /\ honest' = TRUE
    /\ pc' = "send1"
    /\ send_counter' = 0
    /\ UNCHANGED <<mode, sock, aes_encrypt, aes_decrypt, sock_out, writes, inb,
                   peer, peer_pos, sends, recvs, rpos, tamper, opens>>
    /\ UNCHANGED <<retries_arg, retries, last_error, raised, result, first_end>>

\* line 20 with retries left, line 22, lines 34-40: a call of
\* _do_authentication starts and draws its nonce
NextAttempt ==
    /\ pc = "loop"
    /\ retries # 0
    /\ \E nonce \in Nonces : loc' = AttemptLocals(loc, nonce, attempts + 1)
    /\ attempts' = attempts + 1
    /\ sent' = <<>>
    /\ rcvd' = <<>>
    /\ att_err' = NoError
    /\ honest' = TRUE
    /\ pc' = "send1"
    /\ UNCHANGED <<conn_vars, retries_arg, retries, last_error, raised, result,
                   first_end>>

\* line 20 with no retries left, line 26
RaiseLast ==
    /\ pc = "loop"
    /\ retries = 0
    /\ raised' = last_error
    /\ pc' = "raised"
    /\ UNCHANGED <<conn_vars, retries_arg, retries, last_error, result, loc,
                   attempts, sent, rcvd, att_err, first_end, honest>>

\* _do_authentication raises e: lines 23-25 when the except clause takes it,
\* and out of do_authentication when it does not
AttemptRaises(e) ==
    /\ att_err' = e
    /\ first_end' = IF attempts = 1 THEN EndTag(e) ELSE first_end
    /\ IF Caught(e)
       THEN /\ last_error' = LastErrorAfter(last_error, e)
            /\ retries' = retries - 1
            /\ pc' = "loop"
            /\ UNCHANGED raised
       ELSE /\ raised' = e
            /\ pc' = "propagated"
            /\ UNCHANGED <<last_error, retries>>
    /\ UNCHANGED <<retries_arg, result, attempts>>

\* sender.send(..) -> Connection.send: the frame takes the next seq and is
\* written; a failed write leaves the attempt with the socket's error
SenderSend(message, ok) ==
    /\ send_counter' = CounterAfterSend(mode, send_counter)
    /\ UNCHANGED <<mode, aes_encrypt, aes_decrypt, peer, sends, opens>>
    /\ IF sock = "open" /\ ok
       THEN /\ sent' = Append(sent, message)
            /\ UNCHANGED <<sock, sock_out, writes, inb, peer_pos, recvs, rpos,
                           tamper, honest>>
       ELSE /\ honest' = FALSE
            /\ UNCHANGED sent
            /\ IF sock = "open"
               THEN SocketGone
               ELSE UNCHANGED <<sock, sock_out, writes, inb, peer_pos, recvs,
                                rpos, tamper>>

SendStep(at, message, next) ==
    /\ pc = at
    /\ \E ok \in WriteOutcomes :
          /\ SenderSend(message, ok)
          /\ IF sock = "open" /\ ok
             THEN /\ pc' = next
                  /\ UNCHANGED <<retries_arg, retries, last_error, raised, result,
                                 attempts, att_err, first_end>>
             ELSE AttemptRaises(Err("ConnectionClosed", ""))
    /\ UNCHANGED <<loc, rcvd>>

\* line 41
Send1 == SendStep("send1", req_pq(loc), "recv1")

\* line 110
Send2 == SendStep("send2", req_DH_params(loc), "recv2")

\* line 195
Send3 == SendStep("send3", set_client_DH_params(loc), "recv3")

\* lines that would go on to the next send whatever the checks found
Proceed_Anyway(o, next) ==
    /\ loc' = o.loc
    /\ pc' = next
    /\ UNCHANGED <<retries_arg, retries, last_error, raised, attempts, att_err,
                   first_end>>

\* the lines after a receive have run with outcome o
Proceed(o, next) ==
    IF o.err = NoError
    THEN /\ loc' = o.loc
         /\ pc' = next
         /\ UNCHANGED <<retries_arg, retries, last_error, raised, attempts,
                        att_err, first_end>>
    ELSE /\ loc' = o.loc
         /\ AttemptRaises(o.err)

\* lines 45-109
Recv1 ==
    /\ pc = "recv1"
    /\ \E r \in Responses1, new_nonce \in NewNonces :
          /\ rcvd' = Append(rcvd, r)
          /\ honest' = (honest /\ Honest1(r))
          /\ Proceed(AfterResPQ(loc, r, new_nonce, attempts), "send2")
    /\ UNCHANGED <<conn_vars, result, sent>>

\* lines 114-194
Recv2 ==
    /\ pc = "recv2"
    /\ \E r \in Responses2, now \in Clock, b \in Bs :
          /\ rcvd' = Append(rcvd, r)
          /\ honest' = (honest /\ Honest2(r))
          /\ Proceed(AfterServerDHParams(loc, r, now, b, attempts), "send3")
    /\ UNCHANGED <<conn_vars, result, sent>>

\* lines 198-226
Recv3 ==
    /\ pc = "recv3"
    /\ \E r \in Responses3 :
          /\ rcvd' = Append(rcvd, r)
          /\ honest' = (honest /\ Honest3(r))
          /\ LET o == AfterDHGen(loc, r)
             IN  IF o.err = NoError
                 THEN /\ result' = [auth_key |-> AuthKey(get_byte_array(loc.gab)),
                                    time_offset |-> loc.time_offset,
                                    set |-> TRUE]
                      /\ pc' = "returned"
                      /\ UNCHANGED <<retries_arg, retries, last_error, raised,
                                     attempts, att_err, first_end>>
                 ELSE /\ AttemptRaises(o.err)
                      /\ UNCHANGED result
    /\ UNCHANGED <<conn_vars, loc, sent>>

\* sender.receive() raises: the frame fails its checksum, the socket is
\* closed under the read, or the read deadline passes
RecvFails ==
    /\ pc \in {"recv1", "recv2", "recv3"}
    /\ \E e \in TransportErrors :
          /\ AttemptRaises(e)
          /\ IF e.type = "ConnectionClosed" /\ sock = "open"
             THEN /\ SocketGone
                  /\ UNCHANGED <<mode, send_counter, aes_encrypt, aes_decrypt,
                                 peer, sends, opens>>
             ELSE UNCHANGED conn_vars
    /\ honest' = FALSE
    /\ UNCHANGED <<result, loc, sent, rcvd>>

InitAuth == Init /\ mode = "TCP_FULL"

NextAuth ==
    \/ Connect
    \/ DoAuthentication
    \/ NextAttempt
    \/ RaiseLast
    \/ Send1
    \/ Recv1
    \/ Send2
    \/ Recv2
    \/ Send3
    \/ Recv3
    \/ RecvFails

SpecAuth == InitAuth /\ [][NextAuth]_vars

\* the handshake on a connection that its owner also closes and connects
\* again between two calls
NextSeq ==
    \/ Connect
    \/ ConnectAlready
    \/ Close
    \/ DoAuthentication
    \/ NextAttempt
    \/ RaiseLast
    \/ Send1
    \/ Recv1
    \/ Send2
    \/ Recv2
    \/ Send3
    \/ Recv3
    \/ RecvFails

SpecSeq == InitAuth /\ [][NextSeq]_vars

(***************************************************************************)
(* Properties of the handshake.                                            *)
(***************************************************************************)
\* the current attempt is over
AttemptOver == pc \in {"loop", "raised", "propagated", "returned"} /\ attempts > 0

\* the DH inner data the client finds in the step-2 answer
InnerData ==
    decrypt_ige(rcvd[2].encrypted_answer,
                generate_key_data_from_nonce(rcvd[1].server_nonce, loc.new_nonce))

\* the i-th message received is of the expected constructor and carries a
\* nonce that is not the one sent in req_pq, or (from step 2 on) a
\* server_nonce that is not the one of resPQ
NonceMismatch(i) ==
    CASE i = 1 -> rcvd[1].code = "0x05162463" /\ rcvd[1].nonce # sent[1].nonce
      [] i = 2 ->
            /\ rcvd[2].code = "0xd0e8075c"
            /\ \/ rcvd[2].nonce # sent[1].nonce
               \/ rcvd[2].server_nonce # rcvd[1].server_nonce
               \/ /\ InnerData.code = "0xb5890dba"
                  /\ \/ InnerData.nonce # sent[1].nonce
                     \/ InnerData.server_nonce # rcvd[1].server_nonce
      [] OTHER ->
            /\ rcvd[3].code = "0x3bcbf734"
            /\ \/ rcvd[3].nonce # sent[1].nonce
               \/ rcvd[3].server_nonce # rcvd[1].server_nonce

\* C1: an attempt returns a key only if resPQ, server_DH_params_ok, the
\* decrypted inner data and dh_gen_ok all carried the nonce of req_pq and the
\* last three the server_nonce of resPQ; an attempt that receives one that
\* does not ends there with SecurityError, having sent nothing after it.
C1_NoncesChecked ==
    /\ pc = "returned" =>
          /\ Len(rcvd) = 3
          /\ \A i \in 1..3 : rcvd[i].nonce = sent[1].nonce
          /\ \A i \in 2..3 : rcvd[i].server_nonce = rcvd[1].server_nonce
          /\ InnerData.nonce = sent[1].nonce
          /\ InnerData.server_nonce = rcvd[1].server_nonce
    /\ \A i \in 1..Len(rcvd) :
          NonceMismatch(i) =>
             /\ AttemptOver
             /\ att_err.type = "SecurityError"
             /\ Len(rcvd) = i
             /\ Len(sent) = i

\* an attempt has ended on the nonce of the decrypted inner data
C1_Witness ==
    /\ pc = "loop"
    /\ Len(rcvd) = 2
    /\ rcvd[2].nonce = sent[1].nonce
    /\ rcvd[2].server_nonce = rcvd[1].server_nonce
    /\ InnerData.code = "0xb5890dba"
    /\ InnerData.nonce # sent[1].nonce
    /\ att_err = SecurityError("Invalid nonce in encrypted answer")
    /\ Len(sent) = 2

\* the hash the client expects in dh_gen_ok
ExpectedHash ==
    calc_new_nonce_hash(AuthKey(get_byte_array(pow(loc.ga, loc.b, loc.dh_prime))),
                        loc.new_nonce, 1)

\* C2: a key and a time offset are returned only on a dh_gen_ok whose
\* new_nonce_hash1 is the hash of this attempt's new_nonce and auth key; a
\* dh_gen_ok with another hash ends the attempt with SecurityError and no
\* key is returned.
C2_KeyOnlyOnGoodHash ==
    /\ result.set <=> pc = "returned"
    /\ pc = "returned" =>
          /\ Len(rcvd) = 3
          /\ rcvd[3].code = "0x3bcbf734"
          /\ rcvd[3].new_nonce_hash1 = ExpectedHash
          /\ result.auth_key = AuthKey(get_byte_array(pow(loc.ga, loc.b, loc.dh_prime)))
          /\ result.time_offset = loc.time_offset
    /\ (Len(rcvd) = 3 /\ rcvd[3].code = "0x3bcbf734"
          /\ rcvd[3].new_nonce_hash1 # ExpectedHash) =>
             /\ AttemptOver
             /\ att_err.type = "SecurityError"
             /\ ~result.set

\* a dh_gen_ok with the right nonces and the hash of another new_nonce has
\* ended an attempt
C2_Witness ==
    /\ pc = "loop"
    /\ Len(rcvd) = 3
    /\ rcvd[3].code = "0x3bcbf734"
    /\ rcvd[3].nonce = loc.nonce
    /\ rcvd[3].server_nonce = loc.server_nonce
    /\ rcvd[3].new_nonce_hash1 # ExpectedHash
    /\ rcvd[3].new_nonce_hash1.key = ExpectedHash.key
    /\ att_err = SecurityError("Invalid new nonce hash")

\* max(1, retries) for the argument of the call
AllowedAttempts ==
    CASE retries_arg.kind = "omitted" -> 5
      [] retries_arg.kind = "None" -> 1
      [] OTHER -> IF retries_arg.n < 1 THEN 1 ELSE retries_arg.n

\* C3: do_authentication starts at most max(1, retries) attempts (5 when the
\* argument is left out), returns as soon as an attempt succeeds, and raises
\* only after max(1, retries) attempts have failed, and then the error of
\* the last of them.
C3_RetriesBoundAttempts ==
    /\ attempts <= AllowedAttempts
    /\ pc = "returned" => (result.set /\ att_err = NoError)
    /\ pc = "raised" =>
          /\ attempts = AllowedAttempts
          /\ att_err.type \in {"SecurityError", "TypeNotFoundError", "NotImplementedError"}
          /\ raised = att_err
    /\ (pc = "loop" /\ attempts > 0 /\ attempts < AllowedAttempts) => retries # 0

\* two attempts have failed with different errors and the second one's has
\* been raised
C3_Witness ==
    /\ pc = "raised"
    /\ retries_arg = [kind |-> "int", n |-> 2]
    /\ attempts = 2
    /\ first_end = "dh_gen_fail"
    /\ raised = SecurityError("Invalid new nonce hash")

\* C4: dh_gen_fail or dh_gen_retry in the first attempt ends do_authentication
\* only when one attempt is allowed, and then by raising it; with two or more
\* allowed the loop goes on to a second attempt, and a second attempt in
\* which the server follows the exchange returns a key.
C4_RetryAfterDhGenFail ==
    first_end \in {"dh_gen_fail", "dh_gen_retry"} =>
       /\ (attempts = 1 /\ pc \in {"raised", "propagated", "returned"}) =>
             /\ AllowedAttempts = 1
             /\ pc = "raised"
             /\ raised = NotImplementedError(first_end)
       /\ (attempts = 1 /\ pc = "loop" /\ AllowedAttempts >= 2) => retries # 0
       /\ (attempts = 1 /\ pc = "loop" /\ AllowedAttempts = 1) => retries = 0
       /\ (attempts = 2 /\ honest /\ AttemptOver) =>
             /\ pc = "returned"
             /\ result.set

\* dh_gen_fail in the first attempt, a key from the second
C4_Witness ==
    /\ first_end = "dh_gen_fail"
    /\ attempts = 2
    /\ honest
    /\ pc = "returned"
    /\ retries_arg = [kind |-> "int", n |-> 2]

\* C5: an InvalidChecksumError, a closed connection or a timeout raised while
\* a handshake message is sent or received leaves do_authentication as it
\* is, from the attempt in which it occurs, whatever retries remain.
C5_TransportErrorsPropagate ==
    /\ att_err.type \in {"InvalidChecksumError", "ConnectionClosed", "Timeout"} =>
          /\ pc = "propagated"
          /\ raised = att_err
    /\ pc = "propagated" =>
          /\ att_err.type \notin {"SecurityError", "TypeNotFoundError", "NotImplementedError"}
          /\ raised = att_err

\* a checksum error in the second of five attempts
C5_Witness ==
    /\ pc = "propagated"
    /\ raised.type = "InvalidChecksumError"
    /\ retries_arg.kind = "omitted"
    /\ attempts = 2
    /\ retries = 4

\* C6: every local of an attempt that holds a random or received value was
\* assigned in that attempt, each attempt draws its own nonce, new_nonce and
\* b, and the messages of an attempt are made of that attempt's values.
C6_AttemptsShareNothing ==
    attempts > 0 =>
       /\ \A f \in DOMAIN loc.born : loc.born[f] \in {0, attempts}
       /\ loc.born.nonce = attempts
       /\ pc \in {"send2", "recv2", "send3", "recv3", "returned"} =>
             loc.born.new_nonce = attempts
       /\ pc \in {"send3", "recv3", "returned"} => loc.born.b = attempts
       /\ \A i \in 1..Len(sent) : sent[i].nonce = loc.nonce
       /\ \A i \in 2..Len(sent) : sent[i].server_nonce = rcvd[1].server_nonce
       /\ Len(sent) >= 2 =>
             /\ sent[2].cipher_text.data.new_nonce = loc.new_nonce
             /\ sent[2].cipher_text.data.pq = rcvd[1].pq
       /\ Len(sent) >= 3 =>
             /\ sent[3].encrypted.key_iv =
                   generate_key_data_from_nonce(rcvd[1].server_nonce, loc.new_nonce)
             /\ sent[3].encrypted.plain.gb =
                   get_byte_array(pow(loc.g, loc.b, loc.dh_prime))

\* a second attempt has run to its end on values of its own
C6_Witness ==
    /\ attempts = 2
    /\ pc = "returned"
    /\ \A f \in DOMAIN loc.born : loc.born[f] = 2

(***************************************************************************)
(* Properties of the transport.                                            *)
(***************************************************************************)
\* the seq field of the k-th frame written to the current socket (full mode)
SeqField(k) == from_bytes(Slice(sock_out, WriteStart(k) + 4, 4))

\* C7: in full mode the k-th frame written to an open socket carries seq
\* k - 1 (0 for the first frame after every connect that opened the socket),
\* and after k sends the next frame will carry seq k.
C7_SeqCountsSends ==
    (mode = "TCP_FULL" /\ sock = "open") =>
        /\ \A k \in 1..Len(writes) : SeqField(k) = k - 1
        /\ send_counter = Len(writes)

\* two frames written on a socket that was opened by a reconnect
C7_Witness ==
    /\ mode = "TCP_FULL"
    /\ sock = "open"
    /\ opens = 2
    /\ Len(writes) = 2
    /\ SeqField(2) = 1

\* what connect() writes first in the current mode, as found on the wire
PrefixOnWire ==
    CASE mode = "TCP_FULL" -> TRUE
      [] mode \in {"TCP_ABRIDGED", "TCP_INTERMEDIATE"} ->
            Slice(sock_out, 0, PrefixLength) = ModePrefix(mode)
      [] OTHER ->
            /\ Len(sock_out) >= 64
            /\ Slice(sock_out, 8, 32) = aes_encrypt.key
            /\ Slice(sock_out, 40, 16) = aes_encrypt.iv

\* C8: the stream of every open socket starts with the one prefix of the mode
\* (none in full mode), written by connect() before any frame, and every
\* later write is a frame.
C8_PrefixOncePerConnect ==
    sock = "open" =>
        IF mode = "TCP_FULL"
        THEN \A k \in 1..Len(writes) : writes[k].tag = "frame"
        ELSE /\ Len(writes) >= 1
             /\ writes[1] = [tag |-> "prefix", n |-> PrefixLength]
             /\ PrefixOnWire
             /\ \A k \in 2..Len(writes) : writes[k].tag = "frame"

\* an obfuscated socket opened by a reconnect, with its initializer and two
\* frames written
C8_Witness ==
    /\ IsObfuscated
    /\ sock = "open"
    /\ opens = 2
    /\ Len(writes) = 3

\* the payloads of the send() calls that reached the current socket
SentMessages ==
    LET ok == SelectSeq(sends, LAMBDA x : x.result = "ok")
    IN  [i \in 1..Len(ok) |-> ok[i].message]

AllAligned == \A i \in 1..Len(sends) : Len(sends[i].message) % 4 = 0

\* recv() has returned the payloads sent so far, in order, and when it has
\* returned as many as were sent back nothing is left on the stream
RoundTrip ==
    /\ Len(recvs) <= Len(SentMessages)
    /\ \A i \in 1..Len(recvs) :
          recvs[i].kind = "body" /\ recvs[i].body = SentMessages[i]
    /\ (peer_pos = Len(sock_out) /\ Len(recvs) = Len(SentMessages)) => inb = <<>>

ReadAltered ==
    { i \in 1..Len(recvs) :
         recvs[i].from <= tamper.at /\ tamper.at < recvs[i].from + recvs[i].used }

RaisedInvalidChecksum(i) ==
    recvs[i].kind = "error" /\ recvs[i].err = "InvalidChecksumError"

\* C10 as stated: whichever byte of a full-mode frame is altered, the recv()
\* that reads it raises InvalidChecksumError.
C10_AnyByteDetected ==
    tamper # NoTamper => \A i \in ReadAltered : RaisedInvalidChecksum(i)

\* C10, amended: when a byte of the seq field, the payload or the checksum of
\* a full-mode frame is altered, the recv() that reads it raises
\* InvalidChecksumError and returns no body.
C10_AlteredBodyDetected ==
    tamper.field \in {"seq", "payload", "checksum"} =>
        \A i \in ReadAltered : RaisedInvalidChecksum(i)

\* a frame with an altered payload byte has been read
C10_Witness ==
    /\ tamper.field = "payload"
    /\ \E i \in ReadAltered : RaisedInvalidChecksum(i)

\* the first n bytes of the initializer as connect() handed them to the
\* socket, bytes 56..63 with the self-encryption taken off again
InitializerPlain ==
    Slice(sock_out, 0, 56)
        \o CtrOutput([aes_encrypt EXCEPT !.pos = 56], Slice(sock_out, 56, 8))

\* the starts an initializer must not have
ForbiddenStarts ==
    keywords \cup { <<72, 69, 65, 68>>, <<0, 0, 0, 0>> }

\* C11: the initializer written by a connect in obfuscated mode does not
\* start with EF, nor with HEAD, POST, GET, PVrG, EE EE EE EE or four zero
\* bytes, and its bytes 56..59 were EF EF EF EF before it was encrypted.
C11_InitializerAvoidsPrefixes ==
    (IsObfuscated /\ sock = "open") =>
        /\ sock_out[1] # 239
        /\ Slice(sock_out, 0, 4) \notin ForbiddenStarts
        /\ Slice(InitializerPlain, 56, 4) = <<239, 239, 239, 239>>

\* the number of bits of n
RECURSIVE BitLength(_)
BitLength(n) == IF n = 0 THEN 0 ELSE 1 + BitLength(n \div 2)

\* DH parameters a client must refuse: g outside 2..7, g_a not strictly
\* between 1 and dh_prime - 1, or a prime that has not the size of the
\* group's (2048 bits; in this model the size of GoodDH.dh_prime)
OutOfRange(d) ==
    \/ d.g \notin 2..7
    \/ ~(1 < d.ga /\ d.ga < d.dh_prime - 1)
    \/ BitLength(d.dh_prime) # BitLength(GoodDH.dh_prime)

\* C12: an attempt that finds out-of-range DH parameters in the decrypted
\* inner data ends there with SecurityError: it computes no g_b or g_ab,
\* sends no set_client_DH_params and returns no key.
C12_DHParamsChecked ==
    (/\ Len(rcvd) >= 2
     /\ rcvd[2].code = "0xd0e8075c"
     /\ InnerData.code = "0xb5890dba"
     /\ OutOfRange(InnerData)) =>
        /\ AttemptOver
        /\ att_err.type = "SecurityError"
        /\ Len(sent) = 2
        /\ loc.born.gab # attempts
        /\ pc # "returned"

\* the k-th write on the current socket as the client framed it, before the
\* write path encrypted it
PlainFrame(k) ==
    LET at == WriteStart(k)
        bytes == Slice(sock_out, at, writes[k].n)
    IN  IF IsObfuscated THEN CtrOutput([aes_encrypt EXCEPT !.pos = at], bytes)
        ELSE bytes

\* the length prefix a frame starts with: the length in words it announces
\* and the bytes it takes
LengthPrefix(f) ==
    IF f[1] < 127 THEN [words |-> f[1], size |-> 1]
    ELSE [words |-> f[2] + 256 * f[3] + 65536 * f[4], size |-> 4]

\* C13: in abridged and obfuscated mode every frame written announces the
\* length of the payload that follows it: 4 * L is the number of payload
\* bytes written.
C13_PrefixMatchesPayload ==
    (mode \in {"TCP_ABRIDGED", "TCP_OBFUSCATED"} /\ sock = "open") =>
        \A k \in 2..Len(writes) :
           LET f == PlainFrame(k)
               prefix == LengthPrefix(f)
           IN  4 * prefix.words = Len(f) - prefix.size

\* the length prefix of a payload of n words
AbridgedPrefix(n) ==
    IF n < 127 THEN <<n>> ELSE <<127, n % 256, (n \div 256) % 256, n \div 65536>>

\* every payload of a whole number of words was written behind its prefix
EncodedAbridged ==
    \A k \in 1..Len(SentMessages) :
       LET message == SentMessages[k]
       IN  Len(message) % 4 = 0 =>
              PlainFrame(k + 1) = AbridgedPrefix(Len(message) \div 4) \o message

\* recv() on the stream s, when s holds a whole frame, returns the payload
\* behind a prefix of four bytes if long and of one byte if not
Decodes(s, long) ==
    LET size == IF long THEN 4 ELSE 1
    IN  Len(s) >= size =>
           LET words == IF long THEN s[2] + 256 * s[3] + 65536 * s[4] ELSE s[1]
           IN  Len(s) >= size + 4 * words =>
                  RecvAbridged(s) = Body(Slice(s, size, 4 * words), size + 4 * words)

\* C14 as stated: a payload of n words is written behind the byte n when
\* n < 127 and behind 7F and n in three little-endian bytes when n >= 127,
\* and recv() reads three further length bytes exactly when the first byte
\* is 7F.
C14_LongPrefixOnlyAt7F ==
    (mode \in {"TCP_ABRIDGED", "TCP_OBFUSCATED"} /\ sock = "open") =>
        /\ EncodedAbridged
        /\ inb # <<>> => Decodes(ReadView, ReadView[1] = 127)

\* C14, amended: the encoding as stated, and recv() reads three further
\* length bytes exactly when the first byte is 7F or more.
C14_AbridgedLengthCoding ==
    (mode \in {"TCP_ABRIDGED", "TCP_OBFUSCATED"} /\ sock = "open") =>
        /\ EncodedAbridged
        /\ inb # <<>> => Decodes(ReadView, ReadView[1] >= 127)

\* payloads of 126 and of 127 words have been written, and a frame whose
\* first byte is 80 waits to be read
C14_Witness ==
    /\ mode = "TCP_ABRIDGED"
    /\ sock = "open"
    /\ Len(writes) = 3
    /\ Slice(sock_out, 1, 1) = <<126>>
    /\ Slice(sock_out, 506, 4) = <<127, 127, 0, 0>>
    /\ inb # <<>>
    /\ inb[1] = 128
    /\ RecvAbridged(inb).body = <<9, 8, 7, 6>>

\* the position of the first fingerprint of the list with a known public
\* key, 0 when there is none
FirstWithKey(fingerprints) ==
    LET known == { i \in 1..Len(fingerprints) : fingerprints[i] \in KnownKeys }
    IN  IF known = {} THEN 0 ELSE CHOOSE i \in known : \A j \in known : i <= j

\* the i-th message of the attempt was received and is a resPQ that passes
\* the checks made before the fingerprints are looked at
ResPQAccepted ==
    /\ Len(rcvd) >= 1
    /\ rcvd[1].code = "0x05162463"
    /\ rcvd[1].nonce = sent[1].nonce
    /\ rcvd[1].vector_id = "0x1cb5c415"

\* C15: the fingerprint sent in req_DH_params is the first advertised one
\* with a known public key and the ciphertext is the one made for it; when
\* no advertised fingerprint has a known key the attempt ends with
\* SecurityError before req_DH_params is sent.
C15_FirstKnownFingerprint ==
    /\ Len(sent) >= 2 =>
          LET fingerprints == rcvd[1].fingerprints
              i == FirstWithKey(fingerprints)
          IN  /\ i # 0
              /\ sent[2].fingerprint = fingerprints[i]
              /\ sent[2].cipher_text # NoCipherText
              /\ sent[2].cipher_text.fingerprint = fingerprints[i]
              /\ sent[2].cipher_text.data.code = "0x83c95aec"
              /\ sent[2].cipher_text.data.nonce = sent[1].nonce
              /\ sent[2].cipher_text.data.server_nonce = rcvd[1].server_nonce
              /\ sent[2].cipher_text.data.new_nonce = loc.new_nonce
              /\ sent[2].cipher_text.data.pq = rcvd[1].pq
    /\ (ResPQAccepted /\ FirstWithKey(rcvd[1].fingerprints) = 0) =>
          /\ AttemptOver
          /\ att_err.type = "SecurityError"
          /\ Len(sent) = 1
          /\ Len(rcvd) = 1

\* req_DH_params went out for a list whose first fingerprint has no known
\* key and whose second and third have one
C15_Witness ==
    /\ Len(sent) >= 2
    /\ rcvd[1].fingerprints = <<"fpX", "fpB", "fpA">>
    /\ sent[2].fingerprint = "fpB"
    /\ sent[2].cipher_text.fingerprint = "fpB"

\* the i-th message received carries a constructor id that the client does
\* not expect at that point: the response of step 1 or its vector tag, the
\* response of step 2 or the inner data it decrypts to, the response of
\* step 3
UnexpectedId(i) ==
    CASE i = 1 -> rcvd[1].code # "0x05162463" \/ rcvd[1].vector_id # "0x1cb5c415"
      [] i = 2 ->
            \/ rcvd[2].code \notin {"0xd0e8075c", "0x79cb045d"}
            \/ /\ rcvd[2].code = "0xd0e8075c"
               /\ InnerData.code # "0xb5890dba"
      [] OTHER -> rcvd[3].code \notin {"0x3bcbf734", "0x46dc1fb9", "0xa69dae02"}

\* the attempt ended at its i-th receive with an error that the driver
\* caught and counted, having sent nothing since
CaughtAt(i) ==
    /\ pc \in {"loop", "raised"}
    /\ att_err.type \in {"SecurityError", "TypeNotFoundError", "NotImplementedError"}
    /\ last_error = att_err
    /\ retries < ClampRetries(BoundRetries(retries_arg))
    /\ ~result.set
    /\ Len(rcvd) = i
    /\ Len(sent) = i

\* C16: an unexpected constructor id in the response of step 1 or its vector
\* tag, in the response of step 2 or its decrypted inner data, or in the
\* response of step 3 ends the attempt with an error that do_authentication
\* catches and counts as a failed attempt; server_DH_params_fail ends it
\* with SecurityError, caught in the same way.
C16_UnexpectedIdsCaught ==
    /\ \A i \in 1..Len(rcvd) : UnexpectedId(i) => CaughtAt(i)
    /\ (Len(rcvd) >= 1 /\ rcvd[1].code # "0x05162463") =>
          att_err = TypeNotFoundError(rcvd[1].code)
    /\ (Len(rcvd) >= 2 /\ rcvd[2].code \notin {"0xd0e8075c", "0x79cb045d"}) =>
          att_err = TypeNotFoundError(rcvd[2].code)
    /\ (Len(rcvd) >= 3 /\ UnexpectedId(3)) => att_err.type = "NotImplementedError"
    /\ (Len(rcvd) >= 2 /\ rcvd[2].code = "0x79cb045d") =>
          /\ CaughtAt(2)
          /\ att_err.type = "SecurityError"

\* a second attempt has ended on inner data of an unknown constructor, and
\* the driver is about to go round its loop again
C16_Witness ==
    /\ attempts = 2
    /\ first_end = "other"
    /\ pc = "loop"
    /\ Len(rcvd) = 2
    /\ rcvd[2].code = "0xd0e8075c"
    /\ rcvd[2].nonce = sent[1].nonce
    /\ rcvd[2].server_nonce = rcvd[1].server_nonce
    /\ InnerData.code = OtherCode
    /\ att_err = TypeNotFoundError(OtherCode)

Progress ==
    CASE pc = "send1" -> <<0, 0>>
      [] pc = "recv1" -> <<1, 0>>
      [] pc = "send2" -> <<1, 1>>
      [] pc = "recv2" -> <<2, 1>>
      [] pc = "send3" -> <<2, 2>>
      [] pc = "recv3" -> <<3, 2>>
      [] pc = "returned" -> <<3, 3>>
      [] OTHER -> <<Len(sent), Len(rcvd)>>

\* the k-th response is the one the client waits for at step k and passes
\* every check made on it
Checked(k) ==
    /\ ~UnexpectedId(k)
    /\ ~NonceMismatch(k)
    /\ CASE k = 1 -> FirstWithKey(rcvd[1].fingerprints) # 0
         [] k = 2 -> rcvd[2].code = "0xd0e8075c"
         [] OTHER ->
               /\ rcvd[3].code = "0x3bcbf734"
               /\ rcvd[3].new_nonce_hash1 = ExpectedHash

\* where the attempt stands: its requests in order, each after the response
\* before it was checked
InOrder ==
    /\ <<Len(sent), Len(rcvd)>> = Progress
    /\ Len(rcvd) <= Len(sent)
    /\ Len(sent) <= Len(rcvd) + 1
    /\ Len(sent) <= 3
    /\ \A k \in 1..Len(sent) :
          sent[k].code = <<"0x60469778", "0xd712e4be", "0xf5045f1f">>[k]
    /\ \A k \in 1..Len(rcvd) : (Len(sent) > k \/ pc = "returned") => Checked(k)
    /\ pc = "returned" => att_err = NoError

\* a step: a new attempt starts, or nothing is sent or received, or an
\* attempt that has not failed sends one message when every one sent was
\* answered, or receives one when the last one sent was not
OneAtATime ==
    \/ attempts' = attempts + 1 /\ sent' = <<>> /\ rcvd' = <<>>
    \/ sent' = sent /\ rcvd' = rcvd
    \/ /\ att_err = NoError
       /\ Len(sent) = Len(rcvd)
       /\ Len(sent') = Len(sent) + 1
       /\ SubSeq(sent', 1, Len(sent)) = sent
       /\ rcvd' = rcvd
    \/ /\ att_err = NoError
       /\ Len(sent) = Len(rcvd) + 1
       /\ Len(rcvd') = Len(rcvd) + 1
       /\ SubSeq(rcvd', 1, Len(rcvd)) = rcvd
       /\ sent' = sent

\* C18: within an attempt the client sends req_pq, req_DH_params and
\* set_client_DH_params in that order, one at a time, each only after the
\* response to the one before was received and passed its checks; an attempt
\* that returns has sent three messages and received three; an attempt that
\* has failed sends and receives nothing more.
C18_LinearHandshake == []InOrder /\ [][OneAtATime]_vars

\* a second attempt has returned after three sends and three receives
C18_Witness ==
    /\ pc = "returned"
    /\ attempts = 2
    /\ Len(sent) = 3
    /\ Len(rcvd) = 3
    /\ sent[3].code = "0xf5045f1f"
    /\ rcvd[3].code = "0x3bcbf734"

\* the frames of the first k send() calls since the socket was opened, one
\* after the other, as they enter the write path
RECURSIVE FramesOf(_)
FramesOf(k) ==
    IF k = 0 THEN <<>>
    ELSE FramesOf(k - 1) \o Frame(mode, send_counter, sends[k].message)

\* every byte the peer has put on the current socket, in order
Inbound ==
    IF peer_pos <= 64 THEN <<>>
    ELSE PeerReply(64, Slice(sock_out, 64, peer_pos - 64))

\* in obfuscated mode: the encrypt stream has taken every byte given to
\* send() since the connect, once; on the open socket the initializer lies
\* in the clear before them, they follow under one keystream that started at
\* 64, and what recv() reads is the next part of the peer's bytes under one
\* keystream that started at 0
StreamsContinuous ==
    IsObfuscated =>
       /\ aes_encrypt = NoCipher <=> opens = 0
       /\ aes_decrypt = NoCipher <=> opens = 0
       /\ aes_encrypt # NoCipher =>
             aes_encrypt.pos = 64 + Len(FramesOf(Len(sends)))
       /\ sock = "open" =>
             LET init == Slice(sock_out, 0, 64)
                 enc == AESModeCTR(encrypt_key(init), encrypt_iv(init))
                 dec == AESModeCTR(decrypt_key(init), decrypt_iv(init))
             IN  /\ writes[1] = [tag |-> "prefix", n |-> 64]
                 /\ \A k \in 2..Len(writes) : writes[k].tag = "frame"
                 /\ Slice(init, 56, 4) = Slice(CtrOutput(enc, TaggedRandom(init)), 56, 4)
                 /\ aes_encrypt = CtrAdvance(enc, Len(sock_out))
                 /\ Slice(sock_out, 64, Len(sock_out) - 64)
                       = CtrOutput(CtrAdvance(enc, 64), FramesOf(Len(sends)))
                 /\ (\A i \in 1..Len(recvs) : recvs[i].kind = "body") =>
                       /\ aes_decrypt = CtrAdvance(dec, rpos)
                       /\ inb = Slice(Inbound, rpos, Len(Inbound) - rpos)
                       /\ ReadView = Slice(CtrOutput(dec, Inbound), rpos,
                                           Len(Inbound) - rpos)

\* a step that opens a socket in obfuscated mode leaves both streams at
\* their start, the encrypt stream past the 64 bytes of the initializer
FreshOnConnect ==
    (IsObfuscated /\ opens' = opens + 1) =>
       /\ aes_encrypt'.pos = 64
       /\ aes_decrypt'.pos = 0
       /\ sock' = "open" =>
             /\ sock_out' = Slice(sock_out', 0, 64)
             /\ aes_encrypt'.key = encrypt_key(sock_out')
             /\ aes_encrypt'.iv = encrypt_iv(sock_out')
             /\ aes_decrypt'.key = decrypt_key(sock_out')
             /\ aes_decrypt'.iv = decrypt_iv(sock_out')

Opened == opens' = opens + 1

\* the step is a send(): one of the three of a handshake attempt
SendStarted == pc \in {"send1", "send2", "send3"} /\ pc' # pc

\* in full mode a step leaves _send_counter at 0 if it opens the socket, one
\* higher if it is a send, written or not, and as it was otherwise
CounterStep ==
    mode = "TCP_FULL" =>
       /\ Opened => send_counter' = 0
       /\ (~Opened /\ SendStarted) => send_counter' = send_counter + 1
       /\ (~Opened /\ SendStarted /\ sock' # "open") => send_counter' = send_counter + 1
       /\ (~Opened /\ ~SendStarted) => send_counter' = send_counter
       /\ (sock = "open" /\ sock' = "closed" /\ ~SendStarted) =>
             send_counter' = send_counter
       /\ attempts' = attempts + 1 => send_counter' = send_counter

\* C20: in full mode _send_counter is the number of sends started since the
\* last connect() that opened the socket: 0 after such a connect, one more
\* after every send whether or not its write succeeded, and unchanged by
\* close(), by a connect() on a connected socket and by the start of another
\* handshake attempt.
C20_CounterCountsSendsStarted == [][CounterStep]_vars

\* a second attempt has sent its req_pq as the fifth frame of a socket that
\* was opened once
C20_Witness ==
    /\ mode = "TCP_FULL"
    /\ opens = 1
    /\ sock = "open"
    /\ attempts = 2
    /\ pc = "recv1"
    /\ Len(sent) = 1
    /\ send_counter = 4

====
